---- MODULE Spec2Model ----
(***************************************************************************)
(* Technical-analysis engine of skala-finance: tools/stock_data.py         *)
(* (StockDataFetcher) and tools/analyzer.py (StockAnalyzer).               *)
(*                                                                         *)
(* The engine holds no state between calls, so the state machine is the    *)
(* caller's view of one call at a time: an idle engine, a call with the    *)
(* series the data provider served for it, and the outcome of the call     *)
(* (a returned value or a raised exception).                               *)
(*                                                                         *)
(* Numbers.  pandas/numpy compute in IEEE doubles; the model computes in   *)
(* exact rationals extended with NaN, +inf and -inf, with numpy's rules    *)
(* for division by zero and NaN propagation.  Closes are integers (KRW     *)
(* prices), so sums of closes and of deltas are exact in doubles too.      *)
(* A standard deviation is carried by its square (the variance).           *)
(* An exponentially weighted mean has no exact value of bounded size (its  *)
(* denominator is a power of span + 1), so it is carried by an enclosure:  *)
(* two integers, in units of 1/EmaScale, between which its value lies.     *)
(***************************************************************************)
EXTENDS Integers, Sequences, FiniteSets, TLC

(***************************************************************************)
(* Bounds of the model.                                                    *)
(***************************************************************************)
\* every series length 0..MaxShort is served, besides the lengths around
\* each window constant of the program
MaxShort == 3
\* number of instruments in a sector roster (10 in config.py)
RosterSize == 2
\* the number of bars of the linearly rising scenario series
RampBars == 100
\* resolution of the enclosures of the exponentially weighted means: the
\* ends of an enclosure are multiples of 1/EmaScale
EmaScale == 100000
\* number of indicator calls recorded in a run of concurrent invocations
MaxCalls == 3

(***************************************************************************)
(* Program constants.                                                      *)
(***************************************************************************)
MA5Window == 5
MA20Window == 20
MA60Window == 60
MA120Window == 120
EmaFastSpan == 12
EmaSlowSpan == 26
SignalSpan == 9
RsiPeriod == 14
TrendWindow == 20
MomentumPeriod == 14
VolatilityWindow == 20
SupportWindow == 20
RecentWindow == 20
Lookback1m == 20
Lookback3m == 60
Lookback6m == 120
Lookback1y == 250
ForecastDays == 5
TradingDays == 252

(***************************************************************************)
(* Extended rationals: numpy float64 values.                               *)
(***************************************************************************)
RECURSIVE GCD(_, _)
GCD(a, b) == IF b = 0 THEN a ELSE GCD(b, a % b)

Abs(x) == IF x < 0 THEN -x ELSE x

\* the rational n/d in lowest terms with a positive denominator (d # 0)
Q(n, d) ==
    LET g == GCD(Abs(n), Abs(d))
        s == IF d < 0 THEN -1 ELSE 1
    IN [k |-> "num", n |-> s * (n \div g), d |-> s * (d \div g)]

I(n) == [k |-> "num", n |-> n, d |-> 1]
NaN == [k |-> "nan", n |-> 0, d |-> 1]
PInf == [k |-> "inf", n |-> 1, d |-> 1]
NInf == [k |-> "inf", n |-> -1, d |-> 1]
\* Python's None
None == [k |-> "none", n |-> 0, d |-> 1]

IsNum(a) == a.k = "num"
IsNaN(a) == a.k = "nan"
IsInf(a) == a.k = "inf"
\* sign of a number or an infinity
Sgn(a) == IF a.n > 0 THEN 1 ELSE IF a.n < 0 THEN -1 ELSE 0

FNeg(a) == IF IsNaN(a) THEN NaN ELSE [a EXCEPT !.n = -a.n]

FAdd(a, b) ==
    IF IsNaN(a) \/ IsNaN(b) THEN NaN
    ELSE IF IsInf(a) /\ IsInf(b) THEN (IF a.n = b.n THEN a ELSE NaN)
    ELSE IF IsInf(a) THEN a
    ELSE IF IsInf(b) THEN b
    ELSE LET g == GCD(a.d, b.d)
             l == (a.d \div g) * b.d
         IN Q(a.n * (l \div a.d) + b.n * (l \div b.d), l)

FSub(a, b) == FAdd(a, FNeg(b))

FMul(a, b) ==
    IF IsNaN(a) \/ IsNaN(b) THEN NaN
    ELSE IF IsInf(a) \/ IsInf(b)
         THEN (IF Sgn(a) * Sgn(b) > 0 THEN PInf
               ELSE IF Sgn(a) * Sgn(b) < 0 THEN NInf ELSE NaN)
    ELSE LET g1 == GCD(Abs(a.n), b.d)
             g2 == GCD(Abs(b.n), a.d)
         IN Q((a.n \div g1) * (b.n \div g2), (a.d \div g2) * (b.d \div g1))

\* numpy division: x/0 is +-inf for x # 0 and NaN for x = 0 (a warning, no
\* exception); a finite value over an infinity is 0
FDiv(a, b) ==
    IF IsNaN(a) \/ IsNaN(b) THEN NaN
    ELSE IF IsInf(a) /\ IsInf(b) THEN NaN
    ELSE IF IsInf(a) THEN (IF Sgn(b) < 0 THEN FNeg(a) ELSE a)
    ELSE IF IsInf(b) THEN I(0)
    ELSE IF b.n = 0
         THEN (IF a.n > 0 THEN PInf ELSE IF a.n < 0 THEN NInf ELSE NaN)
    ELSE FMul(a, Q(b.d, b.n))

FAbs(a) == IF IsNaN(a) THEN NaN ELSE [a EXCEPT !.n = Abs(a.n)]

\* a > b on floats: False as soon as one side is NaN
FGt(a, b) ==
    IF IsNaN(a) \/ IsNaN(b) THEN FALSE
    ELSE IF IsInf(a) THEN a.n > 0 /\ ~(IsInf(b) /\ b.n > 0)
    ELSE IF IsInf(b) THEN b.n < 0
    ELSE a.n * b.d > b.n * a.d

FLt(a, b) == FGt(b, a)

\* a != b on floats: True as soon as one side is NaN
FNe(a, b) == IsNaN(a) \/ IsNaN(b) \/ a # b

\* a finite float
IsFinite(a) == IsNum(a)

(***************************************************************************)
(* Enclosures [lo, hi], in units of 1/EmaScale, of float values.           *)
(***************************************************************************)
\* the enclosure of an integer: the value itself
Exact(x) == [lo |-> x * EmaScale, hi |-> x * EmaScale]

IsExact(e) == e.lo = e.hi

\* a - b
ESub(a, b) == [lo |-> a.lo - b.hi, hi |-> a.hi - b.lo]

\* a / b rounded down and rounded up (b > 0)
FloorDiv(a, b) == a \div b
CeilDiv(a, b) == -((-a) \div b)

\* a > b holds for every pair of values of the two enclosures
SurelyGt(a, b) == a.lo > b.hi
\* a > b holds for no pair of values of the two enclosures
SurelyNotGt(a, b) == a.hi <= b.lo

(***************************************************************************)
(* Price series served by the data provider.                               *)
(***************************************************************************)
Shapes == {"flat", "zig", "stepup", "stepdown", "cycle", "surge", "slump"}

\* close of the i-th bar (1-based) of an n-bar series of the given shape
ShapeClose(sh, n, i) ==
    CASE sh = "flat" -> 100
      [] sh = "zig" -> IF i % 2 = 1 THEN 100 ELSE 200
      [] sh = "stepup" -> IF 2 * i <= n THEN 100 ELSE 200
      [] sh = "stepdown" -> IF 2 * i <= n THEN 200 ELSE 100
      [] sh = "cycle" -> IF i % 3 = 1 THEN 50 ELSE IF i % 3 = 2 THEN 100 ELSE 200
      \* constant, then a loss of 30 and a gain of 70 on the last two bars
      [] sh = "surge" -> IF i = n THEN 140 ELSE IF i = n - 1 THEN 70 ELSE 100
      \* constant, then a gain of 30 and a loss of 70 on the last two bars
      [] sh = "slump" -> IF i = n THEN 160 ELSE IF i = n - 1 THEN 230 ELSE 200

\* a bar keeps low <= close <= high
Bar(c) == [Close |-> c, High |-> c + 10, Low |-> c - 10]

MkSeries(sh, n) == [i \in 1..n |-> Bar(ShapeClose(sh, n, i))]

\* the window constants whose boundaries the served lengths straddle
WindowConstants ==
    {MA5Window, RsiPeriod, MA20Window, MA60Window, MA120Window, Lookback1y}

Lengths ==
    (0..MaxShort) \cup UNION {{w - 1, w, w + 1} : w \in WindowConstants}

ProviderSeries == {MkSeries(sh, n) : sh \in Shapes, n \in Lengths}

\* the scenario series: a close rising linearly from 100 to 200 over RampBars
\* bars, in price units of 100 / (RampBars - 1), so that bar i closes at
\* (RampBars - 1) + (i - 1) units; RampSeries(n) is its prefix of n bars
RampSeries(n) == [i \in 1..n |-> Bar(RampBars - 2 + i)]
RampPrefixes == {RampSeries(n) : n \in 1..RampBars}

(***************************************************************************)
(* Indicator library: pandas operations on a column.  A column of prices   *)
(* or of price differences is a sequence of integers; a column of returns  *)
(* is a sequence of floats.  The columns that are rolled over hold no NaN: *)
(* closes are numbers, where() replaces the NaN of the first difference by *)
(* 0 and dropna() drops the NaN of the first return; so the number of      *)
(* observations of a window is the number of its entries.                  *)
(***************************************************************************)
\* data['Close']
CloseOf(data) == [i \in 1..Len(data) |-> data[i].Close]

\* sum of the integers xs[lo..hi]
RECURSIVE IntSum(_, _, _)
IntSum(xs, lo, hi) ==
    IF lo > hi THEN 0
    ELSE IF lo = hi THEN xs[lo]
    ELSE LET mid == (lo + hi) \div 2
         IN IntSum(xs, lo, mid) + IntSum(xs, mid + 1, hi)

\* sum of the floats xs[lo..hi]
RECURSIVE FSum(_, _, _)
FSum(xs, lo, hi) ==
    IF lo > hi THEN I(0)
    ELSE IF lo = hi THEN xs[lo]
    ELSE LET mid == (lo + hi) \div 2
         IN FAdd(FSum(xs, lo, mid), FSum(xs, mid + 1, hi))

\* a rolling mean with min_periods = 1: defined from the first entry, on the
\* entries the window has so far
RollingMeanAtMinPeriods1(xs, w, i) ==
    IF i >= w THEN Q(IntSum(xs, i - w + 1, i), w) ELSE Q(IntSum(xs, 1, i), i)

\* rolling(window=w).mean() at entry i (1-based) of an integer column:
\* min_periods defaults to the window, so the first w-1 entries are NaN
RollingMeanAt(xs, w, i) ==
    IF i >= w THEN Q(IntSum(xs, i - w + 1, i), w) ELSE NaN

RollingMean(xs, w) == [i \in 1..Len(xs) |-> RollingMeanAt(xs, w, i)]

\* sample variance (ddof = 1) from a sum, a sum of squares and a count
SampleVar(sum, ssq, n) ==
    IF n <= 1 THEN NaN
    ELSE FDiv(FSub(ssq, FDiv(FMul(sum, sum), I(n))), I(n - 1))

\* the square of rolling(window=w).std() at entry i of an integer column
RollingVarAt(xs, w, i) ==
    IF i >= w
    THEN SampleVar(I(IntSum(xs, i - w + 1, i)),
                   I(IntSum([j \in 1..i |-> xs[j] * xs[j]], i - w + 1, i)), w)
    ELSE NaN

RollingVar(xs, w) == [i \in 1..Len(xs) |-> RollingVarAt(xs, w, i)]

\* Series.pct_change().dropna(): one return per bar after the first
PctChangeDropna(close) ==
    [i \in 1..(IF Len(close) = 0 THEN 0 ELSE Len(close) - 1) |->
        FSub(FDiv(I(close[i + 1]), I(close[i])), I(1))]

\* the square of std() of the last w entries of a float column of length n
\* (n >= 1), NaN while the column has fewer than w entries
FRollingVarLast(xs, w, n) ==
    IF n >= w
    THEN SampleVar(FSum(xs, n - w + 1, n),
                   FSum([j \in 1..n |-> FMul(xs[j], xs[j])], n - w + 1, n), w)
    ELSE NaN

\* the square of Series.std() over a whole float column of length n
SeriesVar(xs, n) ==
    SampleVar(FSum(xs, 1, n), FSum([j \in 1..n |-> FMul(xs[j], xs[j])], 1, n), n)

\* delta = close.diff(); delta.where(delta > 0, 0): the first difference is
\* NaN, NaN > 0 is False, so the first entry is 0
GainOf(close) ==
    [i \in 1..Len(close) |->
        IF i > 1 /\ close[i] - close[i - 1] > 0 THEN close[i] - close[i - 1] ELSE 0]

\* delta.where(delta < 0, 0) without the negation: losses stay negative
SignedLossOf(close) ==
    [i \in 1..Len(close) |->
        IF i > 1 /\ close[i] - close[i - 1] < 0 THEN close[i] - close[i - 1] ELSE 0]

\* -delta.where(delta < 0, 0)
LossOf(close) ==
    [i \in 1..Len(close) |->
        IF i > 1 /\ close[i] - close[i - 1] < 0 THEN close[i - 1] - close[i] ELSE 0]

\* RSI at bar i: rs = gain / loss on the rolling means, 100 - 100 / (1 + rs)
RsiAt(close, period, i) ==
    LET gain == RollingMeanAt(GainOf(close), period, i)
        loss == RollingMeanAt(LossOf(close), period, i)
        rs == FDiv(gain, loss)
    IN FSub(I(100), FDiv(I(100), FAdd(I(1), rs)))

\* an RSI column averaged over half the period
RsiColumnHalfPeriod(close, period) ==
    [i \in 1..Len(close) |-> RsiAt(close, period \div 2, i)]

\* df['RSI']: the RSI of every bar
RsiColumn(close, period) == [i \in 1..Len(close) |-> RsiAt(close, period, i)]

\* a band value mean + side * 2 * sqrt(var), side 1 or -1, carried by its
\* parts; it is NaN as soon as the mean or the deviation is
Band(mean, var, side) == [mean |-> mean, var |-> var, side |-> side]
IsNaNBand(b) == IsNaN(b.mean) \/ IsNaN(b.var)

\* df['MA20'] + (df['MA20_STD'] * 2) and df['MA20'] - (df['MA20_STD'] * 2)
BandColumn(ma, var, side) == [i \in DOMAIN ma |-> Band(ma[i], var[i], side)]

\* a step that does not smooth: the mean is the current value
EwmStepNoSmoothing(weighted, cur, span) == cur

\* one step of ewm(span, adjust=False).mean(): alpha = 2 / (span + 1),
\* weighted = (1 - alpha) * weighted + alpha * cur, kept as it is when
\* weighted == cur; the ends of the enclosure are rounded outwards
EwmStep(weighted, cur, span) ==
    IF IsExact(weighted) /\ weighted = cur THEN weighted
    ELSE [lo |-> FloorDiv(2 * cur.lo + (span - 1) * weighted.lo, span + 1),
          hi |-> CeilDiv(2 * cur.hi + (span - 1) * weighted.hi, span + 1)]

\* the means of the entries lo..hi appended to col, which holds the means of
\* the entries before lo; the first half is computed before the second one
RECURSIVE EwmRun(_, _, _, _, _)
EwmRun(col, xs, span, lo, hi) ==
    IF lo > hi THEN col
    ELSE IF lo = hi THEN Append(col, EwmStep(col[lo - 1], xs[lo], span))
    ELSE LET mid == (lo + hi) \div 2
             left == EwmRun(col, xs, span, lo, mid)
         IN IF Len(left) = mid THEN EwmRun(left, xs, span, mid + 1, hi) ELSE left

\* a column seeded by zero instead of its first entry
EwmMeanZeroSeeded(xs, span) ==
    IF Len(xs) = 0 THEN <<>>
    ELSE EwmRun(<<EwmStep(Exact(0), xs[1], span)>>, xs, span, 2, Len(xs))

\* Series.ewm(span=span, adjust=False).mean() on a column of enclosures
\* without NaN: the first mean is the first entry
EwmMean(xs, span) ==
    IF Len(xs) = 0 THEN <<>> ELSE EwmRun(<<xs[1]>>, xs, span, 2, Len(xs))

\* an indicator function that refuses a series shorter than the band window
CalculateTechnicalIndicatorsStrict(data) ==
    [status |-> "raised",
     exc |-> IF Len(data) < MA20Window THEN "ValueError" ELSE "KeyError"]

\* StockDataFetcher.calculate_technical_indicators: the derived columns of
\* the returned frame (MA20_VAR is the square of MA20_STD); a frame without
\* a Close column raises KeyError
CalculateTechnicalIndicators(data) ==
    IF Len(data) = 0
    THEN [status |-> "raised", exc |-> "KeyError"]
    ELSE LET close == CloseOf(data)
             ma20 == RollingMean(close, MA20Window)
             var20 == RollingVar(close, MA20Window)
             ema12 == EwmMean([i \in 1..Len(close) |-> Exact(close[i])], EmaFastSpan)
             ema26 == EwmMean([i \in 1..Len(close) |-> Exact(close[i])], EmaSlowSpan)
             macd == [i \in 1..Len(close) |-> ESub(ema12[i], ema26[i])]
         IN [status |-> "returned",
             value |-> [Close |-> close,
                        MA5 |-> RollingMean(close, MA5Window),
                        MA20 |-> ma20,
                        MA60 |-> RollingMean(close, MA60Window),
                        MA120 |-> RollingMean(close, MA120Window),
                        MA20_VAR |-> var20,
                        Upper_Band |-> BandColumn(ma20, var20, 1),
                        Lower_Band |-> BandColumn(ma20, var20, -1),
                        EMA12 |-> ema12,
                        EMA26 |-> ema26,
                        MACD |-> macd,
                        Signal |-> EwmMean(macd, SignalSpan),
                        RSI |-> RsiColumn(close, RsiPeriod)]]

(***************************************************************************)
(* Frame objects.  A function receives the caller's frame by reference;    *)
(* data.copy() makes a second object, and a column assignment df[name] =   *)
(* ... adds the column to the object df names.                             *)
(***************************************************************************)
InputColumns == {"Close", "High", "Low"}

\* the columns calculate_technical_indicators assigns
IndicatorColumns ==
    {"MA5", "MA20", "MA60", "MA120", "MA20_STD", "Upper_Band", "Lower_Band",
     "EMA12", "EMA26", "MACD", "Signal", "RSI"}

\* a frame object: its bars and the names of its columns (pd.DataFrame(),
\* the empty frame, has none)
FrameObject(data) ==
    [rows |-> data, columns |-> IF Len(data) = 0 THEN {} ELSE InputColumns]

\* df = data with no copy: df names the caller's object
DataAlias(frame) == [caller |-> frame, copy |-> frame, df |-> "caller"]

\* df = data.copy(): df names a new object with the same bars and columns
DataCopy(frame) == [caller |-> frame, copy |-> frame, df |-> "copy"]

\* df[name] = ... for each of the names
AssignColumns(objs, names) ==
    [objs EXCEPT ![objs.df].columns = @ \cup names]

\* the caller's frame after a call of the operation on it.  The two
\* operations that assign columns assign them to df (a missing Close column
\* raises before the first assignment); the others only read
CallerFrameAfter(op, data) ==
    LET frame == FrameObject(data)
    IN CASE op = "calculate_technical_indicators" /\ Len(data) > 0 ->
              AssignColumns(DataCopy(frame), IndicatorColumns).caller
         [] op = "analyze_trend" /\ Len(data) > 0 ->
              AssignColumns(DataCopy(frame), {"MA"}).caller
         [] OTHER -> frame

(***************************************************************************)
(* Interpretation rules (StockAnalyzer).  Labels are the English of the    *)
(* source's Korean strings: "up" 상승, "down" 하락, "overbought" 과매수,   *)
(* "oversold" 과매도, "neutral" 중립, "very high" 매우 높음, "high" 높음,  *)
(* "moderate" 보통, "low" 낮음.                                            *)
(***************************************************************************)
Returned(v) == [status |-> "returned", value |-> v]
Raised(e) == [status |-> "raised", exc |-> e]

\* a trend that is "up" as soon as the close reaches the average
AnalyzeTrendNonStrict(data, window) ==
    IF Len(data) = 0 THEN Raised("KeyError")
    ELSE LET close == CloseOf(data)
             current_price == I(close[Len(data)])
             ma_price == RollingMeanAt(close, window, Len(data))
         IN Returned([trend |-> IF ~FLt(current_price, ma_price) /\ ~IsNaN(ma_price)
                                THEN "up" ELSE "down",
                      strength |-> FMul(FDiv(FAbs(FSub(current_price, ma_price)),
                                             ma_price), I(100)),
                      current_price |-> current_price,
                      ma |-> ma_price])

\* StockAnalyzer.analyze_trend
AnalyzeTrend(data, window) ==
    IF Len(data) = 0 THEN Raised("KeyError")
    ELSE LET close == CloseOf(data)
             current_price == I(close[Len(data)])
             ma_price == RollingMeanAt(close, window, Len(data))
         IN Returned([trend |-> IF FGt(current_price, ma_price) THEN "up" ELSE "down",
                      strength |-> FMul(FDiv(FAbs(FSub(current_price, ma_price)),
                                             ma_price), I(100)),
                      current_price |-> current_price,
                      ma |-> ma_price])

\* a momentum rule whose thresholds belong to the outer bands
AnalyzeMomentumInclusive(data, period) ==
    IF Len(data) = 0 THEN Raised("KeyError")
    ELSE LET current_rsi == RsiAt(CloseOf(data), period, Len(data))
         IN Returned([RSI |-> current_rsi,
                      state |-> IF IsNaN(current_rsi) THEN "neutral"
                                ELSE IF ~FLt(current_rsi, I(70)) THEN "overbought"
                                ELSE IF ~FGt(current_rsi, I(30)) THEN "oversold"
                                ELSE "neutral"])

\* StockAnalyzer.analyze_momentum
AnalyzeMomentum(data, period) ==
    IF Len(data) = 0 THEN Raised("KeyError")
    ELSE LET current_rsi == RsiAt(CloseOf(data), period, Len(data))
         IN Returned([RSI |-> current_rsi,
                      state |-> IF FGt(current_rsi, I(70)) THEN "overbought"
                                ELSE IF FLt(current_rsi, I(30)) THEN "oversold"
                                ELSE "neutral"])

\* a comparison that also holds at the threshold
VolGe(volsq, t) == ~IsNaN(volsq) /\ ~FLt(volsq, I(t * t))

\* the test written as not (volatility <= t), which holds on NaN
VolNotLe(volsq, t) == IsNaN(volsq) \/ FGt(volsq, I(t * t))

\* the volatility in percent is sqrt(volsq); it is > t (t >= 0) exactly
\* when volsq > t * t, and no comparison holds when it is NaN
VolGt(volsq, t) == FGt(volsq, I(t * t))

\* StockAnalyzer.analyze_volatility: volatility_sq is the square of the
\* annualized volatility in percent, (std * sqrt(252) * 100)^2.  The
\* rolling column of an empty return column is empty, and .iloc[-1] of an
\* empty column raises IndexError
AnalyzeVolatility(data, window) ==
    IF Len(data) = 0 THEN Raised("KeyError")
    ELSE LET returns == PctChangeDropna(CloseOf(data))
         IN IF Len(returns) = 0 THEN Raised("IndexError")
            ELSE LET volsq == FMul(FRollingVarLast(returns, window, Len(returns)),
                                   I(TradingDays * 10000))
                 IN Returned([volatility_sq |-> volsq,
                              level |-> IF VolGt(volsq, 40) THEN "very high"
                                        ELSE IF VolGt(volsq, 30) THEN "high"
                                        ELSE IF VolGt(volsq, 20) THEN "moderate"
                                        ELSE "low"])

SetMin(S) == CHOOSE x \in S : \A y \in S : x <= y
SetMax(S) == CHOOSE x \in S : \A y \in S : x >= y

\* support and resistance taken over the whole series
AnalyzeSupportResistanceWholeSeries(data, window) ==
    IF Len(data) = 0 THEN Raised("KeyError")
    ELSE LET n == Len(data)
             support == I(SetMin({data[j].Low : j \in 1..n}))
             resistance == I(SetMax({data[j].High : j \in 1..n}))
             current_price == I(data[n].Close)
         IN Returned([current_price |-> current_price,
                      support |-> support,
                      resistance |-> resistance,
                      to_support |-> FMul(FDiv(FSub(current_price, support),
                                               current_price), I(100)),
                      to_resistance |-> FMul(FDiv(FSub(resistance, current_price),
                                                  current_price), I(100))])

\* support and resistance taken over the window that ends one bar earlier
AnalyzeSupportResistancePreviousBars(data, window) ==
    IF Len(data) = 0 THEN Raised("KeyError")
    ELSE LET n == Len(data)
             recent == IF n = 1 THEN {1}
                       ELSE (IF n - 1 > window THEN n - window ELSE 1)..(n - 1)
             support == I(SetMin({data[j].Low : j \in recent}))
             resistance == I(SetMax({data[j].High : j \in recent}))
             current_price == I(data[n].Close)
         IN Returned([current_price |-> current_price,
                      support |-> support,
                      resistance |-> resistance,
                      to_support |-> FMul(FDiv(FSub(current_price, support),
                                               current_price), I(100)),
                      to_resistance |-> FMul(FDiv(FSub(resistance, current_price),
                                                  current_price), I(100))])

\* StockAnalyzer.analyze_support_resistance
AnalyzeSupportResistance(data, window) ==
    IF Len(data) = 0 THEN Raised("KeyError")
    ELSE LET n == Len(data)
             recent == (IF n > window THEN n - window + 1 ELSE 1)..n
             support == I(SetMin({data[j].Low : j \in recent}))
             resistance == I(SetMax({data[j].High : j \in recent}))
             current_price == I(data[n].Close)
         IN Returned([current_price |-> current_price,
                      support |-> support,
                      resistance |-> resistance,
                      to_support |-> FMul(FDiv(FSub(current_price, support),
                                               current_price), I(100)),
                      to_resistance |-> FMul(FDiv(FSub(resistance, current_price),
                                                  current_price), I(100))])

(***************************************************************************)
(* Forecast module.                                                        *)
(***************************************************************************)
\* what fitting and forecasting with ARIMA(5,1,0) can do on a series: raise,
\* or forecast some price
ForecastPrices == {50, 100, 200}
PrimaryOutcomes ==
    {[ok |-> FALSE, price |-> 0]} \cup {[ok |-> TRUE, price |-> p] : p \in ForecastPrices}

\* a result mapping that reports an unchanged price as rising
ForecastResultNonStrict(current_price, predicted_price, days) ==
    LET change == FMul(FDiv(FSub(predicted_price, current_price), current_price),
                       I(100))
    IN [current_price |-> current_price,
        predicted_price |-> predicted_price,
        days |-> days,
        change |-> change,
        direction |-> IF FLt(change, I(0)) THEN "down" ELSE "up"]

\* the result mapping built by either branch
ForecastResult(current_price, predicted_price, days) ==
    LET change == FMul(FDiv(FSub(predicted_price, current_price), current_price),
                       I(100))
    IN [current_price |-> current_price,
        predicted_price |-> predicted_price,
        days |-> days,
        change |-> change,
        direction |-> IF FGt(change, I(0)) THEN "up" ELSE "down"]

\* LinearRegression().fit(x, y) on x = 0..n-1 and predict at x_pred:
\* coef = Sxy / Sxx on the centred data (0 when Sxx = 0, the minimum-norm
\* least-squares solution), intercept = mean(y) - coef * mean(x)
LinearPredict(close, x_pred) ==
    LET n == Len(close)
        Sx == IntSum([i \in 1..n |-> i - 1], 1, n)
        Sy == IntSum(close, 1, n)
        Sxy == IntSum([i \in 1..n |-> (i - 1) * close[i]], 1, n)
        Sxx == IntSum([i \in 1..n |-> (i - 1) * (i - 1)], 1, n)
        den == n * Sxx - Sx * Sx
        coef == IF den = 0 THEN I(0) ELSE Q(n * Sxy - Sx * Sy, den)
    IN FAdd(Q(Sy, n), FMul(coef, FSub(I(x_pred), Q(Sx, n))))

\* a fallback that reads the first of the predictions, y_pred[0]
FallbackForecastFirstPrediction(data, days) ==
    LET close == CloseOf(data)
        n == Len(data)
    IN Returned(ForecastResult(I(close[n]), LinearPredict(close, n), days))

\* the except branch of predict_price: x_pred = range(n, n + days), the
\* prediction is the last one
FallbackForecast(data, days) ==
    LET close == CloseOf(data)
        n == Len(data)
    IN Returned(ForecastResult(I(close[n]), LinearPredict(close, n + days - 1), days))

\* predict_price with an except branch that lets the exception through
PredictPriceNoFallback(data, days, primary) ==
    IF Len(data) >= 1 /\ primary.ok
    THEN Returned(ForecastResult(I(data[Len(data)].Close), I(primary.price), days))
         @@ [path |-> "primary"]
    ELSE Raised("ValueError") @@ [path |-> "primary"]

\* StockAnalyzer.predict_price: try ARIMA, on any exception fall back to the
\* linear regression; path records the branch that built the result.  With
\* no bars both branches raise and the exception of the second propagates
PredictPrice(data, days, primary) ==
    IF Len(data) = 0 THEN Raised("KeyError") @@ [path |-> "fallback"]
    ELSE IF primary.ok
         THEN Returned(ForecastResult(I(data[Len(data)].Close), I(primary.price), days))
              @@ [path |-> "primary"]
    ELSE FallbackForecast(data, days) @@ [path |-> "fallback"]

(***************************************************************************)
(* Aggregator.                                                             *)
(***************************************************************************)
\* a trailing return measured from one bar earlier: close[-(lookback + 1)]
TrailingReturnOneBarEarlier(close, lookback) ==
    LET n == Len(close)
    IN IF n > lookback
       THEN FMul(FSub(FDiv(I(close[n]), I(close[n - lookback])), I(1)), I(100))
       ELSE None

\* a trailing return that is zero-filled when the history is too short
TrailingReturnZeroFilled(close, lookback) ==
    LET n == Len(close)
    IN IF n >= lookback
       THEN FMul(FSub(FDiv(I(close[n]), I(close[n - lookback + 1])), I(1)), I(100))
       ELSE I(0)

\* (close[-1] / close[-lookback] - 1) * 100 if len(data) >= lookback else None
TrailingReturn(close, lookback) ==
    LET n == Len(close)
    IN IF n >= lookback
       THEN FMul(FSub(FDiv(I(close[n]), I(close[n - lookback + 1])), I(1)), I(100))
       ELSE None

\* a band of one deviation: close > MA20 + std
AboveUpperBandOneDeviation(close, ma, var) ==
    LET diff == FSub(close, ma)
    IN FGt(diff, I(0)) /\ FGt(FMul(diff, diff), var)

\* close > MA20 + 2 * std, on the variance: the difference is positive and
\* its square exceeds 4 * var; False when the band is NaN
AboveUpperBand(close, ma, var) ==
    LET diff == FSub(close, ma)
    IN FGt(diff, I(0)) /\ FGt(FMul(diff, diff), FMul(I(4), var))

\* close < MA20 - 2 * std
BelowLowerBand(close, ma, var) ==
    LET diff == FSub(ma, close)
    IN FGt(diff, I(0)) /\ FGt(FMul(diff, diff), FMul(I(4), var))

\* latest_close > latest_upper, for a value of the Upper_Band column
FGtBand(close, upper) == AboveUpperBand(close, upper.mean, upper.var)

\* latest_close < latest_lower, for a value of the Lower_Band column
FLtBand(close, lower) == BelowLowerBand(close, lower.mean, lower.var)

\* "buy" if latest_macd >= latest_signal else "sell"
MacdLabelsNonStrict(latest_macd, latest_signal) ==
    {l \in {"buy"} : latest_macd.hi >= latest_signal.lo}
      \cup {l \in {"sell"} : latest_macd.lo < latest_signal.hi}

\* "buy" if latest_macd > latest_signal else "sell", on enclosures: the
\* labels the comparison can give; both when the enclosures do not decide it
MacdLabels(latest_macd, latest_signal) ==
    {l \in {"buy"} : ~SurelyNotGt(latest_macd, latest_signal)}
      \cup {l \in {"sell"} : ~SurelyGt(latest_macd, latest_signal)}

\* the calls full_analysis makes on a non-empty series, in order
AnalysisCalls ==
    <<"calculate_technical_indicators", "analyze_trend", "analyze_momentum",
      "analyze_volatility", "analyze_support_resistance", "predict_price">>

\* the position of the first of the calls, from position i on, that raised;
\* 0 when every call returned (results holds one outcome per call)
RECURSIVE FirstRaised(_, _)
FirstRaised(results, i) ==
    IF i > Len(AnalysisCalls) THEN 0
    ELSE IF results[i].status = "raised" THEN i
    ELSE FirstRaised(results, i + 1)

\* full_analysis after the emptiness check: the six calls in order, the
\* first exception ends the call; then the trailing returns, the MACD and
\* band statuses and the report.  steps lists the calls made; macd_signal
\* holds the labels the MACD comparison can give
AnalyseSeries(code, data, primary) ==
    LET n == Len(data)
        close == CloseOf(data)
        results ==
            <<CalculateTechnicalIndicators(data),
              AnalyzeTrend(data, TrendWindow),
              AnalyzeMomentum(data, MomentumPeriod),
              AnalyzeVolatility(data, VolatilityWindow),
              AnalyzeSupportResistance(data, SupportWindow),
              PredictPrice(data, ForecastDays, primary)>>
        failed == FirstRaised(results, 1)
    IN IF failed # 0
       THEN [status |-> "raised",
             exc |-> results[failed].exc,
             steps |-> <<"get_stock_data">> \o SubSeq(AnalysisCalls, 1, failed)]
       ELSE LET tech_data == results[1].value
                latest_close == I(tech_data.Close[n])
                latest_upper == tech_data.Upper_Band[n]
                latest_lower == tech_data.Lower_Band[n]
            IN [status |-> "returned",
                steps |-> <<"get_stock_data">> \o AnalysisCalls,
                value |->
                  [code |-> code,
                   current_price |-> latest_close,
                   trend |-> results[2].value,
                   momentum |-> results[3].value,
                   volatility |-> results[4].value,
                   support_resistance |-> results[5].value,
                   prediction |-> results[6].value,
                   recent_returns |->
                     [m1 |-> TrailingReturn(close, Lookback1m),
                      m3 |-> TrailingReturn(close, Lookback3m),
                      m6 |-> TrailingReturn(close, Lookback6m),
                      y1 |-> TrailingReturn(close, Lookback1y)],
                   macd_signal |-> MacdLabels(tech_data.MACD[n], tech_data.Signal[n]),
                   bollinger |-> IF FGtBand(latest_close, latest_upper)
                                 THEN "overbought"
                                 ELSE IF FLtBand(latest_close, latest_lower)
                                 THEN "oversold"
                                 ELSE "neutral",
                   RSI |-> tech_data.RSI[n]]]

\* full_analysis without the emptiness check
FullAnalysisNoEmptyCheck(code, data, primary) == AnalyseSeries(code, data, primary)

\* StockAnalyzer.full_analysis: an empty series gives the error mapping
\* (its only key is "error", 오류) before anything is computed
FullAnalysis(code, data, primary) ==
    IF Len(data) = 0
    THEN [status |-> "returned",
          steps |-> <<"get_stock_data">>,
          value |-> [error |-> code]]
    ELSE AnalyseSeries(code, data, primary)

\* an outcome of full_analysis with the MACD label of its report settled:
\* one outcome for each label the comparison can give
MacdOutcomes(outcome) ==
    IF outcome.status = "returned" /\ "macd_signal" \in DOMAIN outcome.value
    THEN {[outcome EXCEPT !.value.macd_signal = l] : l \in outcome.value.macd_signal}
    ELSE {outcome}

FullAnalysisOutcomes(code, data, primary) ==
    MacdOutcomes(FullAnalysis(code, data, primary))

(***************************************************************************)
(* Cross-sectional comparison.                                             *)
(***************************************************************************)
\* TARGET_COMPANIES: three sectors; a roster is modelled by the positions
\* 1..RosterSize of its instruments
Sectors == {"bank", "securities", "insurance"}
Roster(sector) == IF sector \in Sectors THEN [i \in 1..RosterSize |-> i] ELSE <<>>

\* x * |x|: a real number is carried by its signed square where a square
\* root enters it
SignedSquare(x) == FMul(x, FAbs(x))

\* the row of one instrument with data.  volatility_sq is the square of
\* returns.std() * sqrt(252) * 100; sharpe_ss is the signed square of
\* (total_return / 100) / (volatility / 100) if volatility != 0 else 0
ComparisonRow(code, data) ==
    LET close == CloseOf(data)
        n == Len(data)
        returns == PctChangeDropna(close)
        total_return == FMul(FSub(FDiv(I(close[n]), I(close[1])), I(1)), I(100))
        volsq == FMul(SeriesVar(returns, Len(returns)), I(TradingDays * 10000))
        first_recent == IF n > RecentWindow THEN n - RecentWindow + 1 ELSE 1
    IN [code |-> code,
        total_return |-> total_return,
        volatility_sq |-> volsq,
        sharpe_ss |-> IF FNe(volsq, I(0))
                      THEN FDiv(SignedSquare(FDiv(total_return, I(100))),
                                FDiv(volsq, I(10000)))
                      ELSE I(0),
        recent_return |->
            FMul(FSub(FDiv(I(close[n]), I(close[first_recent])), I(1)), I(100))]

\* the rows collected by the loop: instruments with an empty series are
\* skipped
RECURSIVE CollectRows(_, _, _)
CollectRows(codes, served, i) ==
    IF i = 0 THEN <<>>
    ELSE LET rest == CollectRows(codes, served, i - 1)
         IN IF Len(served[i]) = 0 THEN rest
            ELSE Append(rest, ComparisonRow(codes[i], served[i]))

\* pd.DatetimeIndex(df.index.values, freq='B') on the row positions 0..k-1:
\* position j is read as the timestamp j nanoseconds after the epoch
\* (Thursday 1970-01-01), while the business-day range from the first
\* timestamp puts entry j at j business days after it.  The index is built
\* only when the two agree at every entry; otherwise ValueError is raised
PositionTimestamp(j) == [day |-> 0, ns |-> j]
BusinessDayTimestamp(j) == [day |-> j + 2 * ((j + 3) \div 5), ns |-> 0]
ConformsToBusinessDays(k) ==
    \A j \in 0..(k - 1) : PositionTimestamp(j) = BusinessDayTimestamp(j)

\* df.sort_values(total_return, ascending=False): insertion of each row
\* before the first row with a smaller total return
RECURSIVE InsertDesc(_, _)
InsertDesc(row, rows) ==
    IF rows = <<>> THEN <<row>>
    ELSE IF FGt(row.total_return, Head(rows).total_return) THEN <<row>> \o rows
    ELSE <<Head(rows)>> \o InsertDesc(row, Tail(rows))

RECURSIVE SortDesc(_)
SortDesc(rows) ==
    IF rows = <<>> THEN <<>>
    ELSE InsertDesc(rows[Len(rows)], SortDesc(SubSeq(rows, 1, Len(rows) - 1)))

\* StockAnalyzer.compare_sector_performance; served[i] is the series the
\* provider returns for the i-th instrument of the roster
CompareSectorPerformance(sector, served) ==
    LET codes == Roster(sector)
    IN IF Len(codes) = 0 THEN Raised("ValueError: unsupported sector")
       ELSE LET rows == CollectRows(codes, served, Len(codes))
            IN IF ~ConformsToBusinessDays(Len(rows))
               THEN Raised("ValueError: frequency")
               ELSE Returned(SortDesc(rows))

(***************************************************************************)
(* The data provider (StockDataFetcher).                                   *)
(***************************************************************************)
\* what fdr.DataReader does on one request: it returns a series, possibly
\* the empty one, or raises
ReaderOutcomes(served) ==
    {[raised |-> TRUE, series |-> <<>>]}
        \cup {[raised |-> FALSE, series |-> d] : d \in served}

\* a provider that lets the reader's exception through
GetStockDataPropagating(reader) ==
    IF reader.raised THEN Raised("Exception") ELSE Returned(reader.series)

\* StockDataFetcher.get_stock_data: the reader's series, or pd.DataFrame()
\* when the reader raised
GetStockData(reader) ==
    IF reader.raised THEN Returned(<<>>) ELSE Returned(reader.series)

\* data['Close'] assigned as a column of a frame of n rows: aligned on the
\* index, NaN where the series has no bar
AlignedClose(data, n) ==
    [i \in 1..n |-> IF i <= Len(data) THEN I(data[i].Close) ELSE NaN]

\* StockDataFetcher.get_multiple_stocks after the first i codes: a code
\* whose series is empty adds no column; the index is the one of the first
\* series with data
RECURSIVE GetMultipleStocks(_, _, _)
GetMultipleStocks(codes, readers, i) ==
    IF i = 0 THEN Returned([index |-> 0, columns |-> <<>>])
    ELSE LET before == GetMultipleStocks(codes, readers, i - 1)
             fetched == GetStockData(readers[i])
         IN IF before.status = "raised" THEN before
            ELSE IF fetched.status = "raised" THEN fetched
            ELSE IF Len(fetched.value) = 0 THEN before
            ELSE LET n == IF DOMAIN before.value.columns = {}
                          THEN Len(fetched.value) ELSE before.value.index
                 IN Returned([index |-> n,
                              columns |-> before.value.columns
                                  @@ (codes[i] :> AlignedClose(fetched.value, n))])

(***************************************************************************)
(* The state machine: one call at a time on a stateless engine.            *)
(***************************************************************************)
VARIABLES
    pc,     \* "idle" between calls, "done" when a call has ended
    call,   \* the operation called and its arguments
    data,   \* the series of the call: the frame passed in, or the series the
            \* provider returned for each instrument fetched, in order
    ret,    \* the outcome: status "returned" with a value, or "raised"
    frame,  \* the frame object the caller passed, as it is after the call
    th,     \* the invocations in flight, one per thread: position, operation,
            \* argument, outcome, and the cells read and written so far
    heap,   \* the frame objects: the callers' frames and the invocations'
            \* working frames, by cell
    log,    \* the indicator calls completed so far: argument and outcome
    sup,    \* the state mapping of the Supervisor (self.state)
    run     \* the invocation of Supervisor.run: position, stages invoked so
            \* far, pending exception, report output, return value

callVars == <<pc, call, data, ret, frame>>
threadVars == <<th, heap, log>>
supervisorVars == <<sup, run>>
vars == <<callVars, threadVars, supervisorVars>>

Codes == 1..RosterSize
NoCall == [op |-> "none"]
NoOutcome == [status |-> "none"]
NoFrame == [rows |-> <<>>, columns |-> {}]

\* series whose last three returns have an annualized deviation of exactly
\* 40, 30 and 20 percent: returns 0, 1/105, 1/21 and their multiples by 3/4
\* and by 1/2
ThresholdCloses ==
    {<<2205, 2205, 2226, 2332>>, <<3920, 3920, 3948, 4089>>,
     <<8820, 8820, 8862, 9073>>}
ThresholdSeries == {[i \in 1..Len(c) |-> Bar(c[i])] : c \in ThresholdCloses}

\* the windows the direct calls pass: the default, and a short one
TrendWindows == {MA5Window, TrendWindow}
VolatilityWindows == {3, VolatilityWindow}
SupportWindows == {1, SupportWindow}

\* short series whose bars have low = close = high
TightSeries ==
    {[i \in 1..n |-> [Close |-> ShapeClose(sh, n, i), High |-> ShapeClose(sh, n, i),
                      Low |-> ShapeClose(sh, n, i)]] :
        sh \in {"flat", "stepdown"}, n \in 1..MaxShort}

\* the series served to the comparison are the short ones
CompareShapes == {"flat", "zig", "stepup"}
CompareSeries == {MkSeries(sh, n) : sh \in CompareShapes, n \in 0..MaxShort}

\* concurrent invocations: the threads, the operations they call, and the
\* callers' frames they call them on
Threads == {1, 2}
ThreadOperations == {"calculate_technical_indicators", "analyze_trend"}
InputPool == <<MkSeries("zig", MA5Window), MkSeries("cycle", MA5Window + 1)>>

\* the cells that hold frame objects: a frame of a caller, the local
\* variable df of an invocation, and the attributes of the engine object
\* (StockDataFetcher.__init__ assigns none)
CallerCell(k) == [scope |-> "caller", of |-> k]
LocalCell(t) == [scope |-> "local", of |-> t]
AttributeCell == [scope |-> "attribute", of |-> 0]
Cells ==
    {CallerCell(k) : k \in DOMAIN InputPool} \cup {LocalCell(t) : t \in Threads}
        \cup {AttributeCell}

\* a working frame kept in an attribute of the engine object
WorkCellOnEngine(t) == AttributeCell

\* the cell df names in invocation t: a local variable of the call
WorkCell(t) == LocalCell(t)

\* an outcome computed on the argument of the call completed before
FrameResultOfEarlierInput(op, df) ==
    IF op = "calculate_technical_indicators"
    THEN (IF log = <<>> THEN CalculateTechnicalIndicators(df.rows)
          ELSE CalculateTechnicalIndicators(InputPool[log[Len(log)].arg]))
    ELSE AnalyzeTrend(df.rows, MA5Window)

\* what the operation returns, given its working frame df
FrameResult(op, df) ==
    IF op = "calculate_technical_indicators"
    THEN CalculateTechnicalIndicators(df.rows)
    ELSE AnalyzeTrend(df.rows, MA5Window)

\* Supervisor.__init__: a deep copy of DEFAULT_STATE (the supervisor section
\* is active and initializing already).  progress is in tenths; the
\* processed query is empty, so its two flags read as False; there is no
\* error key
NoResults == "{}"
NewSupervisorState ==
    [status |-> "active",
     current_task |-> "initializing",
     progress |-> 0,
     market_research_results |-> NoResults,
     stock_analysis_results |-> NoResults,
     geopolitical_analysis_results |-> NoResults,
     query |-> [processed |-> FALSE, has_trump_reference |-> FALSE,
                geopolitical_analysis |-> FALSE],
     output |-> [status |-> "not_started", final_report |-> ""],
     error |-> "none"]

NoRun ==
    [pc |-> "idle", invoked |-> <<>>, exc |-> "none", output |-> "none",
     ret |-> FALSE]

\* what the stages can return
MarketResults == {"market overview", "market insights"}
StockResults == {"sector analysis", "company analysis"}
GeopoliticalResults == {"geopolitical analysis"}
NotRequested == "not requested"
ReportOutputs == {[report_path |-> "reports/report.md"]}

\* str(e) of the exception a stage raises
StageError(stage) == stage \o " failed"

\* a run that analyses geopolitics whatever the query says
GeopoliticsAlways(query) == TRUE

\* the condition of the third stage
GeopoliticsRequested(query) ==
    query.has_trump_reference \/ query.geopolitical_analysis

IdleThread ==
    [pc |-> "idle", op |-> "none", arg |-> 0, ret |-> NoOutcome,
     reads |-> {}, writes |-> {}]

Init ==
    /\ pc = "idle"
    /\ call = NoCall
    /\ data = <<>>
    /\ ret = NoOutcome
    /\ frame = NoFrame
    /\ th = [t \in Threads |-> IdleThread]
    /\ heap = [c \in Cells |->
                 IF c.scope = "caller" THEN FrameObject(InputPool[c.of]) ELSE NoFrame]
    /\ log = <<>>
    /\ sup = NewSupervisorState
    /\ run = NoRun

\* full_analysis(code): get_stock_data returns some series (the empty one
\* when the reader failed or had nothing)
DoFullAnalysis ==
    /\ pc = "idle"
    /\ \E code \in Codes, d \in ProviderSeries, primary \in PrimaryOutcomes :
          /\ call' = [op |-> "full_analysis", code |-> code, primary |-> primary]
          /\ data' = <<d>>
          /\ \E outcome \in FullAnalysisOutcomes(code, d, primary) : ret' = outcome
    /\ pc' = "done"
    /\ UNCHANGED <<threadVars, supervisorVars>>
    /\ frame' = NoFrame

\* compare_sector_performance(sector): one fetch per roster instrument; an
\* unknown sector raises before any fetch
DoCompareSectorPerformance ==
    /\ pc = "idle"
    /\ \/ \E sector \in Sectors, served \in [Codes -> CompareSeries] :
             /\ call' = [op |-> "compare_sector_performance", sector |-> sector]
             /\ data' = served
             /\ ret' = CompareSectorPerformance(sector, served)
       \/ /\ call' = [op |-> "compare_sector_performance", sector |-> "other"]
          /\ data' = <<>>
          /\ ret' = CompareSectorPerformance("other", <<>>)
    /\ pc' = "done"
    /\ UNCHANGED <<threadVars, supervisorVars>>
    /\ frame' = NoFrame

\* predict_price(data, days)
DoPredictPrice ==
    /\ pc = "idle"
    /\ \E d \in ProviderSeries \cup {RampSeries(RampBars)},
          days \in {1, ForecastDays}, primary \in PrimaryOutcomes :
          /\ call' = [op |-> "predict_price", days |-> days, primary |-> primary]
          /\ data' = <<d>>
          /\ ret' = PredictPrice(d, days, primary)
          /\ frame' = CallerFrameAfter("predict_price", d)
    /\ pc' = "done"
    /\ UNCHANGED <<threadVars, supervisorVars>>

\* calculate_technical_indicators(data)
DoCalculateTechnicalIndicators ==
    /\ pc = "idle"
    /\ \E d \in ProviderSeries \cup {RampSeries(RampBars)} :
          /\ call' = [op |-> "calculate_technical_indicators"]
          /\ data' = <<d>>
          /\ ret' = CalculateTechnicalIndicators(d)
          /\ frame' = CallerFrameAfter("calculate_technical_indicators", d)
    /\ pc' = "done"
    /\ UNCHANGED <<threadVars, supervisorVars>>

\* analyze_trend(data, window)
DoAnalyzeTrend ==
    /\ pc = "idle"
    /\ \E d \in ProviderSeries \cup RampPrefixes, window \in TrendWindows :
          /\ call' = [op |-> "analyze_trend", window |-> window]
          /\ data' = <<d>>
          /\ ret' = AnalyzeTrend(d, window)
          /\ frame' = CallerFrameAfter("analyze_trend", d)
    /\ pc' = "done"
    /\ UNCHANGED <<threadVars, supervisorVars>>

\* analyze_momentum(data)
DoAnalyzeMomentum ==
    /\ pc = "idle"
    /\ \E d \in ProviderSeries :
          /\ call' = [op |-> "analyze_momentum", period |-> MomentumPeriod]
          /\ data' = <<d>>
          /\ ret' = AnalyzeMomentum(d, MomentumPeriod)
          /\ frame' = CallerFrameAfter("analyze_momentum", d)
    /\ pc' = "done"
    /\ UNCHANGED <<threadVars, supervisorVars>>

\* analyze_volatility(data, window)
DoAnalyzeVolatility ==
    /\ pc = "idle"
    /\ \E d \in ProviderSeries \cup ThresholdSeries, window \in VolatilityWindows :
          /\ call' = [op |-> "analyze_volatility", window |-> window]
          /\ data' = <<d>>
          /\ ret' = AnalyzeVolatility(d, window)
          /\ frame' = CallerFrameAfter("analyze_volatility", d)
    /\ pc' = "done"
    /\ UNCHANGED <<threadVars, supervisorVars>>

\* analyze_support_resistance(data)
DoAnalyzeSupportResistance ==
    /\ pc = "idle"
    /\ \E d \in ProviderSeries \cup TightSeries, window \in SupportWindows :
          /\ call' = [op |-> "analyze_support_resistance", window |-> window]
          /\ data' = <<d>>
          /\ ret' = AnalyzeSupportResistance(d, window)
          /\ frame' = CallerFrameAfter("analyze_support_resistance", d)
    /\ pc' = "done"
    /\ UNCHANGED <<threadVars, supervisorVars>>

\* the caller takes the outcome; nothing of the call stays in the engine
\* get_stock_data(code)
DoGetStockData ==
    /\ pc = "idle"
    /\ \E code \in Codes, reader \in ReaderOutcomes(ProviderSeries) :
          /\ call' = [op |-> "get_stock_data", code |-> code, reader |-> reader.raised]
          /\ data' = <<reader.series>>
          /\ ret' = GetStockData(reader)
    /\ frame' = NoFrame
    /\ pc' = "done"
    /\ UNCHANGED <<threadVars, supervisorVars>>

\* get_multiple_stocks(codes): one request to the reader per code
DoGetMultipleStocks ==
    /\ pc = "idle"
    /\ \E readers \in [Codes -> ReaderOutcomes(CompareSeries)] :
          /\ call' = [op |-> "get_multiple_stocks",
                      reader |-> [c \in Codes |-> readers[c].raised]]
          /\ data' = [c \in Codes |-> readers[c].series]
          /\ ret' = GetMultipleStocks([c \in Codes |-> c], readers, RosterSize)
    /\ frame' = NoFrame
    /\ pc' = "done"
    /\ UNCHANGED <<threadVars, supervisorVars>>

Return ==
    /\ pc = "done"
    /\ pc' = "idle"
    /\ UNCHANGED <<threadVars, supervisorVars>>
    /\ call' = NoCall
    /\ data' = <<>>
    /\ ret' = NoOutcome
    /\ frame' = NoFrame

Next ==
    \/ DoFullAnalysis
    \/ DoCompareSectorPerformance
    \/ DoPredictPrice
    \/ DoCalculateTechnicalIndicators
    \/ DoAnalyzeTrend
    \/ DoAnalyzeMomentum
    \/ DoAnalyzeVolatility
    \/ DoAnalyzeSupportResistance
    \/ DoGetStockData
    \/ DoGetMultipleStocks
    \/ Return

Spec == Init /\ [][Next]_vars

(***************************************************************************)
(* Concurrent invocations of the frame operations, one per thread, step by *)
(* step: the call, df = data.copy(), the column assignments, the return.   *)
(***************************************************************************)
InFlight(op) == Cardinality({t \in Threads : th[t].pc # "idle" /\ th[t].op = op})

\* a thread calls an operation on one of the callers' frames
ThreadCall ==
    /\ \E t \in Threads, op \in ThreadOperations, k \in DOMAIN InputPool :
          /\ th[t].pc = "idle"
          /\ op = "calculate_technical_indicators" =>
                Len(log) + InFlight(op) < MaxCalls
          /\ th' = [th EXCEPT ![t] = [IdleThread EXCEPT !.pc = "called",
                                                       !.op = op, !.arg = k]]
    /\ UNCHANGED <<heap, log, callVars, supervisorVars>>

\* df = data.copy()
ThreadCopy ==
    /\ \E t \in Threads :
          /\ th[t].pc = "called"
          /\ heap' = [heap EXCEPT ![WorkCell(t)] =
                                     DataCopy(heap[CallerCell(th[t].arg)]).copy]
          /\ th' = [th EXCEPT ![t].pc = "copied",
                              ![t].reads = @ \cup {CallerCell(th[t].arg)},
                              ![t].writes = @ \cup {WorkCell(t)}]
    /\ UNCHANGED <<log, callVars, supervisorVars>>

\* df[name] = ... for the columns of the operation
ThreadAssign ==
    /\ \E t \in Threads :
          /\ th[t].pc = "copied"
          /\ heap' = [heap EXCEPT ![WorkCell(t)].columns =
                         @ \cup (IF th[t].op = "analyze_trend" THEN {"MA"}
                                 ELSE IndicatorColumns)]
          /\ th' = [th EXCEPT ![t].pc = "assigned",
                              ![t].reads = @ \cup {WorkCell(t)},
                              ![t].writes = @ \cup {WorkCell(t)}]
    /\ UNCHANGED <<log, callVars, supervisorVars>>

\* return df, or the mapping read from its last row
ThreadReturn ==
    /\ \E t \in Threads :
          /\ th[t].pc = "assigned"
          /\ LET outcome == FrameResult(th[t].op, heap[WorkCell(t)])
             IN /\ th' = [th EXCEPT ![t].pc = "done",
                                    ![t].ret = outcome,
                                    ![t].reads = @ \cup {WorkCell(t)}]
                /\ log' = IF th[t].op = "calculate_technical_indicators"
                          THEN Append(log, [arg |-> th[t].arg, ret |-> outcome])
                          ELSE log
    /\ UNCHANGED <<heap, callVars, supervisorVars>>

\* the caller takes the outcome; the local variable of the call is gone
ThreadEnd ==
    /\ \E t \in Threads :
          /\ th[t].pc = "done"
          /\ heap' = [heap EXCEPT ![LocalCell(t)] = NoFrame]
          /\ th' = [th EXCEPT ![t] = IdleThread]
    /\ UNCHANGED <<log, callVars, supervisorVars>>

NextThreads ==
    \/ ThreadCall
    \/ ThreadCopy
    \/ ThreadAssign
    \/ ThreadReturn
    \/ ThreadEnd

ThreadsSpec == Init /\ [][NextThreads]_vars

(***************************************************************************)
(* The Supervisor: the query is processed, then run is called once; run    *)
(* goes through its stages step by step.                                   *)
(***************************************************************************)
\* process_query, and the two flags the application sets afterwards
ProcessQuery ==
    /\ run.pc = "idle"
    /\ ~sup.query.processed
    /\ \E trump \in BOOLEAN, geo \in BOOLEAN :
          sup' = [sup EXCEPT !.query = [processed |-> TRUE,
                                        has_trump_reference |-> trump,
                                        geopolitical_analysis |-> geo]]
    /\ UNCHANGED <<run, callVars, threadVars>>

\* run is entered: lines 130-135
RunStart ==
    /\ run.pc = "idle"
    /\ sup' = [sup EXCEPT !.status = "active",
                          !.current_task = "running_analysis",
                          !.progress = 1]
    /\ run' = [run EXCEPT !.pc = "market_research"]
    /\ UNCHANGED <<callVars, threadVars>>

\* stage 1: market_researcher.analyze_market returns or raises
StageMarketResearch ==
    /\ run.pc = "market_research"
    /\ \/ \E results \in MarketResults :
             /\ sup' = [sup EXCEPT !.progress = 2,
                                   !.market_research_results = results]
             /\ run' = [run EXCEPT !.pc = "stock_analysis",
                                   !.invoked = Append(@, "market_research")]
       \/ /\ sup' = [sup EXCEPT !.progress = 2]
          /\ run' = [run EXCEPT !.pc = "except",
                                !.invoked = Append(@, "market_research"),
                                !.exc = StageError("market_research")]
    /\ UNCHANGED <<callVars, threadVars>>

\* stage 2: stock_analyzer.analyze_stocks returns or raises
StageStockAnalysis ==
    /\ run.pc = "stock_analysis"
    /\ \/ \E results \in StockResults :
             /\ sup' = [sup EXCEPT !.progress = 4,
                                   !.stock_analysis_results = results]
             /\ run' = [run EXCEPT !.pc = "geopolitics",
                                   !.invoked = Append(@, "stock_analysis")]
       \/ /\ sup' = [sup EXCEPT !.progress = 4]
          /\ run' = [run EXCEPT !.pc = "except",
                                !.invoked = Append(@, "stock_analysis"),
                                !.exc = StageError("stock_analysis")]
    /\ UNCHANGED <<callVars, threadVars>>

\* stage 3, when the processed query asks for it:
\* geopolitical_analyst.analyze_geopolitics returns or raises
StageGeopolitics ==
    /\ run.pc = "geopolitics"
    /\ GeopoliticsRequested(sup.query)
    /\ \/ \E results \in GeopoliticalResults :
             /\ sup' = [sup EXCEPT !.progress = 6,
                                   !.geopolitical_analysis_results = results]
             /\ run' = [run EXCEPT !.pc = "report",
                                   !.invoked = Append(@, "geopolitics")]
       \/ /\ sup' = [sup EXCEPT !.progress = 6]
          /\ run' = [run EXCEPT !.pc = "except",
                                !.invoked = Append(@, "geopolitics"),
                                !.exc = StageError("geopolitics")]
    /\ UNCHANGED <<callVars, threadVars>>

\* the else branch of stage 3: no call, a placeholder result
SkipGeopolitics ==
    /\ run.pc = "geopolitics"
    /\ ~GeopoliticsRequested(sup.query)
    /\ sup' = [sup EXCEPT !.geopolitical_analysis_results = NotRequested]
    /\ run' = [run EXCEPT !.pc = "report"]
    /\ UNCHANGED <<callVars, threadVars>>

\* stage 4: report_compiler.generate_report returns or raises
StageReport ==
    /\ run.pc = "report"
    /\ sup' = [sup EXCEPT !.progress = 8]
    /\ \/ \E output \in ReportOutputs :
             run' = [run EXCEPT !.pc = "complete",
                                !.invoked = Append(@, "report"),
                                !.output = output]
       \/ run' = [run EXCEPT !.pc = "except",
                             !.invoked = Append(@, "report"),
                             !.exc = StageError("report")]
    /\ UNCHANGED <<callVars, threadVars>>

\* lines 165-175: the output record, the completed status, return True
RunComplete ==
    /\ run.pc = "complete"
    /\ sup' = [sup EXCEPT !.output = [status |-> "completed",
                                      final_report |-> run.output.report_path],
                          !.status = "completed",
                          !.current_task = "analysis_complete",
                          !.progress = 10]
    /\ run' = [run EXCEPT !.pc = "returned", !.ret = TRUE]
    /\ UNCHANGED <<callVars, threadVars>>

\* lines 176-180: except Exception: the text, the error status, return False
RunExcept ==
    /\ run.pc = "except"
    /\ sup' = [sup EXCEPT !.error = run.exc, !.status = "error"]
    /\ run' = [run EXCEPT !.pc = "returned", !.ret = FALSE]
    /\ UNCHANGED <<callVars, threadVars>>

NextSupervisor ==
    \/ ProcessQuery
    \/ RunStart
    \/ StageMarketResearch
    \/ StageStockAnalysis
    \/ StageGeopolitics
    \/ SkipGeopolitics
    \/ StageReport
    \/ RunComplete
    \/ RunExcept

SupervisorSpec == Init /\ [][NextSupervisor]_vars

(***************************************************************************)
(* Properties.                                                             *)
(***************************************************************************)
Ended(op) == pc = "done" /\ call.op = op

\* C1: for every non-empty series, of any length >= 1, full_analysis
\* returns a report and never raises.
C1_FullAnalysisNeverRaises ==
    (Ended("full_analysis") /\ Len(data[1]) >= 1) =>
        (ret.status = "returned" /\ "error" \notin DOMAIN ret.value)

\* C2: on an empty series full_analysis returns a mapping whose only key is
\* the error key, makes no indicator, interpretation or forecast call, and
\* does not raise.
C2_EmptySeriesErrorResult ==
    (Ended("full_analysis") /\ Len(data[1]) = 0) =>
        /\ ret.status = "returned"
        /\ DOMAIN ret.value = {"error"}
        /\ ret.steps = <<"get_stock_data">>

C2_Witness ==
    /\ Ended("full_analysis")
    /\ Len(data[1]) = 0
    /\ ret.status = "returned"
    /\ DOMAIN ret.value = {"error"}

\* C3: predict_price on a non-empty series never raises; when the primary
\* model raises, the result is the linear-regression forecast, with the
\* fields of a primary result.
ForecastFields == {"current_price", "predicted_price", "days", "change", "direction"}

C3_PrimaryFailureFallsBack ==
    (Ended("predict_price") /\ Len(data[1]) >= 1) =>
        /\ ret.status = "returned"
        /\ DOMAIN ret.value = ForecastFields
        /\ ~call.primary.ok =>
              /\ ret.path = "fallback"
              /\ ret.value.predicted_price =
                    LinearPredict(CloseOf(data[1]), Len(data[1]) - 1 + call.days)

C3_Witness ==
    /\ Ended("predict_price")
    /\ Len(data[1]) = 3
    /\ ~call.primary.ok
    /\ ret.status = "returned"
    /\ ret.path = "fallback"

\* C4: at every bar whose 14-period averaging window holds only non-negative
\* close-to-close deltas (average loss 0), all-zero deltas included, the RSI
\* is exactly 100.
NonNegativeWindow(close, i) ==
    \A j \in (i - RsiPeriod + 1)..i : j > 1 => close[j] >= close[j - 1]

C4_ZeroLossRsiIs100 ==
    (Ended("calculate_technical_indicators") /\ ret.status = "returned") =>
        \A i \in RsiPeriod..Len(data[1]) :
            NonNegativeWindow(CloseOf(data[1]), i) => ret.value.RSI[i] = I(100)

\* the lookbacks of the report, by field
Lookbacks ==
    [m1 |-> Lookback1m, m3 |-> Lookback3m, m6 |-> Lookback6m, y1 |-> Lookback1y]

IsReport == Ended("full_analysis") /\ ret.status = "returned" /\ Len(data[1]) >= 1

\* percentage change from close[from] to close[to]
PctChange(close, from, to) ==
    FMul(FSub(FDiv(I(close[to]), I(close[from])), I(1)), I(100))

\* C5: each reported trailing return is the percentage change from the close
\* L bars before the latest bar to the latest close (stated for the series
\* that hold such a bar).
C5_ReturnFromLBarsBefore ==
    IsReport =>
        \A f \in DOMAIN Lookbacks :
            LET n == Len(data[1])
                v == ret.value.recent_returns[f]
            IN n > Lookbacks[f] =>
                  v = PctChange(CloseOf(data[1]), n - Lookbacks[f], n)

\* what the code reports instead: the percentage change from the close of
\* the L-th most recent bar, L-1 bars before the latest bar, to the latest
\* close.
ReturnOverLastLBars ==
    IsReport =>
        \A f \in DOMAIN Lookbacks :
            LET n == Len(data[1])
                v == ret.value.recent_returns[f]
            IN v # None =>
                  /\ n >= Lookbacks[f]
                  /\ v = PctChange(CloseOf(data[1]), n - (Lookbacks[f] - 1), n)

\* a series of L+1 bars whose two candidate base closes differ
ReturnOverLastLBarsWitness ==
    /\ IsReport
    /\ Len(data[1]) = Lookback3m + 1
    /\ data[1][1].Close # data[1][2].Close
    /\ IsNum(ret.value.recent_returns.m3)

WithData == {i \in DOMAIN data : Len(data[i]) > 0}

ComparedKnownSector == Ended("compare_sector_performance") /\ call.sector \in Sectors

\* C7: the returned table has one row per requested instrument with a
\* non-empty series, in descending order of total return.
C7_TableSortedOneRowPerInstrument ==
    ComparedKnownSector =>
        /\ ret.status = "returned"
        /\ Len(ret.value) = Cardinality(WithData)
        /\ {ret.value[r].code : r \in 1..Len(ret.value)} = WithData
        /\ \A r \in 1..(Len(ret.value) - 1) :
              ~FGt(ret.value[r + 1].total_return, ret.value[r].total_return)

\* C8: on a known sector the comparison never raises, whichever instruments
\* have an empty series.
C8_ComparisonNeverRaises ==
    ComparedKnownSector => ret.status # "raised"

\* C9: in every row the Sharpe-like ratio is finite, is 0 when the
\* volatility is 0 and is return fraction / volatility fraction otherwise
\* (on signed squares: sharpe_ss * (volatility/100)^2 = signed square of the
\* return fraction).
C9_SharpeDefined ==
    (Ended("compare_sector_performance") /\ ret.status = "returned") =>
        \A r \in 1..Len(ret.value) :
            LET row == ret.value[r]
            IN /\ IsFinite(row.sharpe_ss)
               /\ row.volatility_sq = I(0) => row.sharpe_ss = I(0)
               /\ row.volatility_sq # I(0) =>
                     FMul(row.sharpe_ss, FDiv(row.volatility_sq, I(10000)))
                        = SignedSquare(FDiv(row.total_return, I(100)))

\* the moving-average columns of the frame, by window
MAColumns ==
    [MA5 |-> MA5Window, MA20 |-> MA20Window, MA60 |-> MA60Window,
     MA120 |-> MA120Window]

\* C10: for a series of at least 120 bars, MA5, MA20, MA60 and MA120 are
\* undefined at exactly their first 4, 19, 59 and 119 bars and are the mean
\* of the last window closes at every later bar.
C10_MovingAveragePrefix ==
    (Ended("calculate_technical_indicators") /\ Len(data[1]) >= MA120Window) =>
        /\ ret.status = "returned"
        /\ \A c \in DOMAIN MAColumns :
              LET w == MAColumns[c]
                  col == ret.value[c]
              IN \A i \in 1..Len(data[1]) :
                    IF i <= w - 1 THEN IsNaN(col[i])
                    ELSE /\ IsNum(col[i])
                         /\ FMul(col[i], I(w)) =
                               I(IntSum(CloseOf(data[1]), i - w + 1, i))

C10_Witness ==
    /\ Ended("calculate_technical_indicators")
    /\ Len(data[1]) > MA120Window
    /\ ret.status = "returned"
    /\ IsNaN(ret.value.MA120[MA120Window - 1])
    /\ IsNum(ret.value.MA120[MA120Window])
    /\ IsNaN(ret.value.MA5[MA5Window - 1])
    /\ IsNum(ret.value.MA5[MA5Window])

\* the windowed columns of the frame, by window
WindowedColumns ==
    [MA5 |-> MA5Window, MA20 |-> MA20Window, MA60 |-> MA60Window,
     MA120 |-> MA120Window, Upper_Band |-> MA20Window, Lower_Band |-> MA20Window,
     RSI |-> RsiPeriod]

\* the entry of a column is undefined
UndefinedEntry(c, v) ==
    IF c \in {"Upper_Band", "Lower_Band"} THEN IsNaNBand(v) ELSE IsNaN(v)

CalculatedOn(n) ==
    Ended("calculate_technical_indicators") /\ Len(data[1]) = n

\* C11: on every non-empty series calculate_technical_indicators returns a
\* frame whose columns all have one entry per bar of the input, and each
\* windowed column (moving averages, bands, RSI) whose window exceeds the
\* length of the series is undefined at every bar.
C11_ShortSeriesUndefinedColumns ==
    (Ended("calculate_technical_indicators") /\ Len(data[1]) >= 1) =>
        /\ ret.status = "returned"
        /\ \A c \in DOMAIN ret.value : DOMAIN ret.value[c] = DOMAIN data[1]
        /\ \A c \in DOMAIN WindowedColumns :
              WindowedColumns[c] > Len(data[1]) =>
                  \A i \in DOMAIN data[1] : UndefinedEntry(c, ret.value[c][i])

C11_Witness ==
    /\ CalculatedOn(MA20Window - 1)
    /\ ret.status = "returned"
    /\ IsNaN(ret.value.MA20[MA20Window - 1])
    /\ IsNaNBand(ret.value.Upper_Band[MA20Window - 1])
    /\ IsNum(ret.value.MA5[MA20Window - 1])
    /\ IsNum(ret.value.RSI[MA20Window - 1])

\* the operations that take the caller's frame
FrameOperations ==
    {"calculate_technical_indicators", "analyze_trend", "analyze_momentum",
     "analyze_volatility", "analyze_support_resistance", "predict_price"}

\* C12: after a call of an indicator or interpretation function the caller's
\* frame has the bars and the columns it had before; the derived columns are
\* in the returned frame only.
C12_InputFrameUnchanged ==
    (pc = "done" /\ call.op \in FrameOperations) =>
        /\ frame = FrameObject(data[1])
        /\ (call.op = "calculate_technical_indicators" /\ ret.status = "returned") =>
              /\ {"MA5", "MA20", "Upper_Band", "MACD", "RSI"} \subseteq DOMAIN ret.value
              /\ frame.columns \cap IndicatorColumns = {}

C12_Witness ==
    /\ Ended("analyze_trend")
    /\ ret.status = "returned"
    /\ IsNum(ret.value.ma)
    /\ frame.columns = InputColumns
    /\ frame.rows = data[1]

\* the enclosure col[t] holds alpha * x + (1 - alpha) * w, alpha = 2 / (span
\* + 1), for the ends x of xs[t] and w of col[t - 1], and no multiple of
\* 1/EmaScale lies between an end of col[t] and that value
EwmRecursion(col, xs, span, t) ==
    LET lo == 2 * xs[t].lo + (span - 1) * col[t - 1].lo
        hi == 2 * xs[t].hi + (span - 1) * col[t - 1].hi
    IN /\ (span + 1) * col[t].lo <= lo
       /\ (span + 1) * (col[t].lo + 1) > lo
       /\ (span + 1) * col[t].hi >= hi
       /\ (span + 1) * (col[t].hi - 1) < hi

\* C13: on every non-empty series EMA12, EMA26, MACD and Signal are defined
\* at every bar; each EMA starts at the first close and follows EMA[t] =
\* a * x[t] + (1 - a) * EMA[t - 1], a = 2 / (span + 1); MACD = EMA12 - EMA26;
\* Signal is the 9-span EMA of MACD; so MACD and Signal start at 0.
C13_EmaDefinedFromFirstBar ==
    (Ended("calculate_technical_indicators") /\ Len(data[1]) >= 1) =>
        /\ ret.status = "returned"
        /\ LET v == ret.value
               n == Len(data[1])
               x == [t \in 1..n |-> Exact(data[1][t].Close)]
           IN /\ v.EMA12[1] = x[1] /\ v.EMA26[1] = x[1]
              /\ v.MACD[1] = Exact(0) /\ v.Signal[1] = Exact(0)
              /\ \A t \in 1..n :
                    /\ v.EMA12[t].lo <= v.EMA12[t].hi
                    /\ v.EMA26[t].lo <= v.EMA26[t].hi
                    /\ v.Signal[t].lo <= v.Signal[t].hi
                    /\ v.MACD[t] = ESub(v.EMA12[t], v.EMA26[t])
              /\ \A t \in 2..n :
                    /\ EwmRecursion(v.EMA12, x, EmaFastSpan, t)
                    /\ EwmRecursion(v.EMA26, x, EmaSlowSpan, t)
                    /\ EwmRecursion(v.Signal, v.MACD, SignalSpan, t)

C13_Witness ==
    /\ CalculatedOn(MA60Window - 1)
    /\ ret.status = "returned"
    /\ ret.value.MACD[1] = Exact(0)
    /\ ret.value.MACD[Len(data[1])].lo > 0
    /\ ret.value.Signal[Len(data[1])].lo > 0
    /\ IsNaN(ret.value.MA60[Len(data[1])])

\* C14: wherever the RSI column is defined its value is a number between 0
\* and 100, ends included.
C14_RsiInRange ==
    (Ended("calculate_technical_indicators") /\ ret.status = "returned") =>
        \A i \in DOMAIN data[1] :
            LET rsi == ret.value.RSI[i]
            IN ~IsNaN(rsi) =>
                  /\ IsNum(rsi)
                  /\ ~FLt(rsi, I(0))
                  /\ ~FGt(rsi, I(100))

C14_Witness ==
    /\ Ended("calculate_technical_indicators")
    /\ ret.status = "returned"
    /\ Len(data[1]) > RsiPeriod
    /\ FGt(ret.value.RSI[Len(data[1])], I(0))
    /\ FLt(ret.value.RSI[Len(data[1])], I(100))
    /\ ret.value.RSI[RsiPeriod] = I(100)

\* the mean of the last w closes of the series, as a number
LastMean(series, w) == Q(IntSum(CloseOf(series), Len(series) - w + 1, Len(series)), w)

\* a float that is a number >= 0
NonNegative(a) == IsNum(a) /\ a.n >= 0

TrendEnded == Ended("analyze_trend") /\ Len(data[1]) >= 1

\* C15 as stated: analyze_trend reports "up" exactly when the last close is
\* strictly greater than the last moving average and "down" otherwise, and
\* the reported strength is always >= 0.
C15_TrendUpIffAboveAverage ==
    TrendEnded =>
        /\ ret.status = "returned"
        /\ ret.value.trend \in {"up", "down"}
        /\ ret.value.trend = "up" <=> FGt(ret.value.current_price, ret.value.ma)
        /\ NonNegative(ret.value.strength)

\* C15 amended: the trend is "up" exactly when the series has at least
\* window bars and its last close is strictly greater than the mean of its
\* last window closes, and "down" otherwise; the strength is |close - MA| /
\* MA * 100 >= 0 when the series has at least window bars and undefined
\* (NaN) when it has fewer.
C15_StrengthDefinedWithAverage ==
    TrendEnded =>
        LET n == Len(data[1])
            w == call.window
            close == I(data[1][n].Close)
        IN /\ ret.status = "returned"
           /\ ret.value.trend \in {"up", "down"}
           /\ n >= w =>
                 /\ ret.value.trend = "up" <=> FGt(close, LastMean(data[1], w))
                 /\ NonNegative(ret.value.strength)
                 /\ FMul(ret.value.strength, LastMean(data[1], w))
                       = FMul(FAbs(FSub(close, LastMean(data[1], w))), I(100))
           /\ n < w =>
                 /\ ret.value.trend = "down"
                 /\ IsNaN(ret.value.strength)

C15_Witness ==
    /\ TrendEnded
    /\ Len(data[1]) > call.window
    /\ call.window = TrendWindow
    /\ ret.status = "returned"
    /\ ret.value.trend = "up"
    /\ FGt(ret.value.strength, I(0))

\* C16: analyze_momentum returns exactly one label for the last RSI value:
\* "overbought" when it is > 70, "oversold" when it is < 30, "neutral" for
\* every other value, 70 and 30 included.
C16_MomentumStrictThresholds ==
    (Ended("analyze_momentum") /\ Len(data[1]) >= 1) =>
        /\ ret.status = "returned"
        /\ ret.value.RSI = RsiAt(CloseOf(data[1]), RsiPeriod, Len(data[1]))
        /\ ret.value.state \in {"overbought", "oversold", "neutral"}
        /\ ret.value.state = "overbought" <=> FGt(ret.value.RSI, I(70))
        /\ ret.value.state = "oversold" <=> FLt(ret.value.RSI, I(30))
        /\ ret.value.RSI \in {I(70), I(30)} => ret.value.state = "neutral"

C16_Witness ==
    /\ Ended("analyze_momentum")
    /\ ret.status = "returned"
    /\ ret.value.RSI = I(70)
    /\ ret.value.state = "neutral"

\* C17: analyze_volatility returns exactly one level for the annualized
\* volatility v in percent of the last bar: "very high" when v > 40, else
\* "high" when v > 30, else "moderate" when v > 20, else "low"; 40, 30 and
\* 20 fall into the lower band (stated on v * v).
C17_VolatilityStrictThresholds ==
    (Ended("analyze_volatility") /\ ret.status = "returned") =>
        LET vv == ret.value.volatility_sq
            level == ret.value.level
        IN /\ level \in {"very high", "high", "moderate", "low"}
           /\ level = "very high" <=> FGt(vv, I(1600))
           /\ level = "high" <=> (FGt(vv, I(900)) /\ ~FGt(vv, I(1600)))
           /\ level = "moderate" <=> (FGt(vv, I(400)) /\ ~FGt(vv, I(900)))
           /\ level = "low" <=> ~FGt(vv, I(400))

C17_Witness ==
    /\ Ended("analyze_volatility")
    /\ ret.status = "returned"
    /\ ret.value.volatility_sq = I(1600)
    /\ ret.value.level = "high"

\* the bars analyze_support_resistance looks at: the last window bars, all
\* of them when the series has fewer
RecentBars(n, w) == {j \in 1..n : j > n - w}

\* C18: analyze_support_resistance returns the minimum low and the maximum
\* high of the last window bars, 20 by default (of all bars when there are
\* fewer), and the
\* distances (close - support) / close * 100 and (resistance - close) /
\* close * 100 from the last close.
C18_SupportResistanceOverWindow ==
    (Ended("analyze_support_resistance") /\ Len(data[1]) >= 1) =>
        LET n == Len(data[1])
            recent == RecentBars(n, call.window)
            close == I(data[1][n].Close)
            v == ret.value
        IN /\ ret.status = "returned"
           /\ \E j \in recent : v.support = I(data[1][j].Low)
           /\ \A j \in recent : ~FGt(v.support, I(data[1][j].Low))
           /\ \E j \in recent : v.resistance = I(data[1][j].High)
           /\ \A j \in recent : ~FLt(v.resistance, I(data[1][j].High))
           /\ FMul(v.to_support, close) = FMul(FSub(close, v.support), I(100))
           /\ FMul(v.to_resistance, close) = FMul(FSub(v.resistance, close), I(100))

C18_Witness ==
    /\ Ended("analyze_support_resistance")
    /\ call.window = SupportWindow
    /\ Len(data[1]) > SupportWindow
    /\ ret.status = "returned"
    /\ FGt(ret.value.support, I(data[1][1].Low))
    /\ FGt(ret.value.to_support, I(0))
    /\ FGt(ret.value.to_resistance, I(0))

\* the last MACD and Signal values of the series of the report
LatestMacd == CalculateTechnicalIndicators(data[1]).value.MACD[Len(data[1])]
LatestSignal == CalculateTechnicalIndicators(data[1]).value.Signal[Len(data[1])]

LastCloseAbove(series) ==
    LET n == Len(series)
        diff == FSub(I(series[n].Close), RollingMeanAt(CloseOf(series), MA20Window, n))
    IN /\ n >= MA20Window
       /\ FGt(diff, I(0))
       /\ FGt(FMul(diff, diff), FMul(I(4), RollingVarAt(CloseOf(series), MA20Window, n)))

LastCloseBelow(series) ==
    LET n == Len(series)
        diff == FSub(RollingMeanAt(CloseOf(series), MA20Window, n), I(series[n].Close))
    IN /\ n >= MA20Window
       /\ FGt(diff, I(0))
       /\ FGt(FMul(diff, diff), FMul(I(4), RollingVarAt(CloseOf(series), MA20Window, n)))

\* C20: the band label of the report is "overbought" exactly when the last
\* close is strictly above the upper band, "oversold" exactly when it is
\* strictly below the lower band and "neutral" otherwise; the deviation is
\* >= 0 wherever it is defined (lower band <= mean <= upper band), so the two
\* conditions never hold together.
C20_BandLabelExclusive ==
    IsReport =>
        /\ ret.value.bollinger \in {"overbought", "oversold", "neutral"}
        /\ ret.value.bollinger = "overbought" <=> LastCloseAbove(data[1])
        /\ ret.value.bollinger = "oversold" <=> LastCloseBelow(data[1])
        /\ ~(LastCloseAbove(data[1]) /\ LastCloseBelow(data[1]))
        /\ Len(data[1]) >= MA20Window =>
              NonNegative(RollingVarAt(CloseOf(data[1]), MA20Window, Len(data[1])))

C20_Witness ==
    /\ IsReport
    /\ Len(data[1]) > MA20Window
    /\ ret.value.bollinger = "overbought"
    /\ LastCloseAbove(data[1])


\* C21: the fallback prediction is the value, at index (n - 1) + days, of the
\* ordinary-least-squares line of close against the bar index 0..n-1: the
\* line through the centroid of the data and the predicted point leaves
\* residuals orthogonal to the index (with one bar the fit is the constant).
OnLeastSquaresLine(close, x0, p) ==
    LET n == Len(close)
        Sx == IntSum([i \in 1..n |-> i - 1], 1, n)
        Sy == IntSum(close, 1, n)
        Sxy == IntSum([i \in 1..n |-> (i - 1) * close[i]], 1, n)
        Sxx == IntSum([i \in 1..n |-> (i - 1) * (i - 1)], 1, n)
        slope == FDiv(FSub(p, Q(Sy, n)), FSub(I(x0), Q(Sx, n)))
    IN IF n = 1 THEN p = I(close[1])
       ELSE FMul(slope, Q(n * Sxx - Sx * Sx, n)) = Q(n * Sxy - Sx * Sy, n)

C21_FallbackIsLeastSquaresLine ==
    (Ended("predict_price") /\ ret.status = "returned" /\ ret.path = "fallback") =>
        OnLeastSquaresLine(CloseOf(data[1]), Len(data[1]) - 1 + call.days,
                           ret.value.predicted_price)

C21_Witness ==
    /\ Ended("predict_price")
    /\ ret.status = "returned"
    /\ ret.path = "fallback"
    /\ Len(data[1]) = MA20Window + 1
    /\ call.days = ForecastDays
    /\ FGt(ret.value.predicted_price, ret.value.current_price)


\* C22: whichever model produced the forecast, the current price is the last
\* close, the change is (predicted - current) / current * 100, the direction
\* is "up" exactly when the change is strictly positive and "down" otherwise
\* (a zero change is "down"), and the result has the same fields, keyed by
\* the same horizon, on both paths.
C22_ForecastResultShape ==
    (Ended("predict_price") /\ ret.status = "returned") =>
        LET v == ret.value
            last == I(data[1][Len(data[1])].Close)
        IN /\ DOMAIN v = ForecastFields
           /\ v.days = call.days
           /\ v.current_price = last
           /\ ret.path = "primary" => v.predicted_price = I(call.primary.price)
           /\ FMul(v.change, last) = FMul(FSub(v.predicted_price, last), I(100))
           /\ v.direction = "up" <=> FGt(v.change, I(0))
           /\ v.direction = "down" <=> ~FGt(v.change, I(0))

C22_Witness ==
    /\ Ended("predict_price")
    /\ ret.status = "returned"
    /\ ret.path = "primary"
    /\ ret.value.change = I(0)
    /\ ret.value.direction = "down"


\* C23: for the series of RampBars bars whose close rises linearly from 100
\* to 200, the trend judged on every prefix of more than 20 bars is "up", the
\* direction of the linear-regression forecast is "up", and the MACD is
\* strictly greater than the Signal at every bar of the latter half.
LatterHalf == (RampBars \div 2 + 1)..RampBars

C24_SameInputSameFrame ==
    \A i, j \in DOMAIN log :
        log[i].arg = log[j].arg => log[i].ret = log[j].ret

C24_Witness ==
    /\ Len(log) = MaxCalls
    /\ log[1].arg = log[MaxCalls].arg
    /\ \E i \in DOMAIN log : log[i].arg # log[1].arg
    /\ log[1].ret.status = "returned"
    /\ \E t \in Threads : th[t].op = "analyze_trend" /\ th[t].pc = "assigned"

\* C25: invocations share no mutable state: in every interleaving an
\* invocation returns what it returns when it runs alone, no invocation
\* writes a cell that another reads or writes, and the callers' frames
\* stay as they were.
AloneResult(op, k) ==
    IF op = "calculate_technical_indicators"
    THEN CalculateTechnicalIndicators(InputPool[k])
    ELSE AnalyzeTrend(InputPool[k], MA5Window)

C25_InvocationsIndependent ==
    /\ \A t \in Threads :
          th[t].pc = "done" => th[t].ret = AloneResult(th[t].op, th[t].arg)
    /\ \A t, u \in Threads :
          t # u => th[t].writes \cap (th[u].reads \cup th[u].writes) = {}
    /\ \A k \in DOMAIN InputPool : heap[CallerCell(k)] = FrameObject(InputPool[k])

C25_Witness ==
    /\ th[1].pc = "done"
    /\ th[2].pc = "assigned"
    /\ th[1].arg # th[2].arg
    /\ th[1].op = "calculate_technical_indicators"
    /\ th[1].ret.status = "returned"
    /\ th[2].writes # {}


\* C26: get_stock_data never raises, and a failure of the reader yields the
\* empty series; its consumers index only series with data: on an empty
\* series full_analysis returns before any indexing, and the comparison and
\* get_multiple_stocks skip the instrument, so none of them fails on it.
C26_ProviderFailureIsEmptySeries ==
    /\ Ended("get_stock_data") =>
          /\ ret.status = "returned"
          /\ call.reader => ret.value = <<>>
          /\ ~call.reader => ret.value = data[1]
    /\ Ended("get_multiple_stocks") =>
          /\ ret.status = "returned"
          /\ DOMAIN ret.value.columns = WithData
          /\ \A c \in WithData :
                ret.value.columns[c][1] = I(data[c][1].Close)
    /\ (Ended("full_analysis") /\ Len(data[1]) = 0) =>
          (ret.status = "returned" /\ ret.steps = <<"get_stock_data">>)
    /\ ComparedKnownSector =>
          \/ ret.status = "raised" /\ ret.exc = "ValueError: frequency"
          \/ /\ ret.status = "returned"
             /\ {ret.value[r].code : r \in 1..Len(ret.value)} = WithData

C26_Witness ==
    /\ Ended("get_multiple_stocks")
    /\ \E c \in Codes : call.reader[c]
    /\ ret.status = "returned"
    /\ ret.value.index > 1
    /\ Cardinality(DOMAIN ret.value.columns) = 1


\* C27: when every bar has low <= close <= high, analyze_support_resistance
\* returns support <= last close <= resistance, so both distances are >= 0,
\* for every series of at least one bar and every window >= 1.
WellFormedBars(d) ==
    \A j \in DOMAIN d : d[j].Low <= d[j].Close /\ d[j].Close <= d[j].High

C27_CloseBetweenSupportAndResistance ==
    (Ended("analyze_support_resistance") /\ Len(data[1]) >= 1
        /\ call.window >= 1 /\ WellFormedBars(data[1])) =>
        LET v == ret.value
        IN /\ ret.status = "returned"
           /\ ~FGt(v.support, v.current_price)
           /\ ~FLt(v.resistance, v.current_price)
           /\ IsFinite(v.to_support) /\ ~FLt(v.to_support, I(0))
           /\ IsFinite(v.to_resistance) /\ ~FLt(v.to_resistance, I(0))

C27_Witness ==
    /\ Ended("analyze_support_resistance")
    /\ call.window = 1
    /\ Len(data[1]) = 2
    /\ data[1][1].Low > data[1][2].Close
    /\ ret.status = "returned"
    /\ ret.value.to_support = I(0)
    /\ ret.value.to_resistance = I(0)


\* C28: an undefined indicator falls silently into the label of the else
\* branch: with 2 to 20 bars analyze_volatility returns "low" with an
\* undefined volatility, with fewer than 20 bars analyze_trend returns
\* "down" with an undefined strength, and an undefined RSI makes the
\* momentum "neutral"; none of them raises or marks the label.
C28_UndefinedFallsIntoElseLabel ==
    /\ (Ended("analyze_volatility") /\ call.window = VolatilityWindow
            /\ Len(data[1]) \in 2..VolatilityWindow) =>
          /\ ret.status = "returned"
          /\ IsNaN(ret.value.volatility_sq)
          /\ ret.value.level = "low"
    /\ (Ended("analyze_trend") /\ call.window = TrendWindow
            /\ Len(data[1]) \in 1..(TrendWindow - 1)) =>
          /\ ret.status = "returned"
          /\ IsNaN(ret.value.strength)
          /\ ret.value.trend = "down"
    /\ (Ended("analyze_momentum") /\ ret.status = "returned"
            /\ IsNaN(ret.value.RSI)) =>
          ret.value.state = "neutral"

C28_Witness ==
    /\ Ended("analyze_volatility")
    /\ call.window = VolatilityWindow
    /\ Len(data[1]) = VolatilityWindow
    /\ data[1][1].Close # data[1][2].Close
    /\ ret.status = "returned"
    /\ IsNaN(ret.value.volatility_sq)
    /\ ret.value.level = "low"


\* C29: in every report the RSI of the momentum section is the RSI of the
\* indicator snapshot, and the moving average of the trend section is the
\* last MA20 of the indicator frame (both undefined together on a series
\* shorter than the window): the two computations of each agree.
C29_ReportSectionsAgree ==
    IsReport =>
        /\ ret.value.momentum.RSI = ret.value.RSI
        /\ ret.value.trend.ma =
              CalculateTechnicalIndicators(data[1]).value.MA20[Len(data[1])]

C29_Witness ==
    /\ IsReport
    /\ IsNum(ret.value.RSI)
    /\ FGt(ret.value.RSI, I(0)) /\ FLt(ret.value.RSI, I(100))
    /\ IsNum(ret.value.trend.ma)
    /\ ret.value.trend.ma # ret.value.current_price


\* C30: Supervisor.run invokes the stages in the order market research,
\* stock analysis, geopolitical analysis (only when the processed query
\* sets has_trump_reference or geopolitical_analysis), report generation,
\* and progress never decreases.  It returns True, with status "completed",
\* progress 1.0 and output status "completed", exactly when no stage
\* raised.  When a stage raises, no later stage is invoked, the status is
\* "error", the text of the exception is recorded, the output record is
\* unchanged, and run returns False.
StagesOf(query) ==
    IF query.has_trump_reference \/ query.geopolitical_analysis
    THEN <<"market_research", "stock_analysis", "geopolitics", "report">>
    ELSE <<"market_research", "stock_analysis", "report">>

IsPrefix(p, q) == Len(p) <= Len(q) /\ SubSeq(q, 1, Len(p)) = p

RunOutcome ==
    /\ IsPrefix(run.invoked, StagesOf(sup.query))
    /\ run.pc = "returned" =>
          /\ run.ret <=> run.exc = "none"
          /\ run.ret =>
                /\ run.invoked = StagesOf(sup.query)
                /\ sup.status = "completed"
                /\ sup.progress = 10
                /\ sup.output.status = "completed"
                /\ sup.error = "none"
          /\ ~run.ret =>
                /\ run.invoked # <<>>
                /\ run.exc = StageError(run.invoked[Len(run.invoked)])
                /\ sup.status = "error"
                /\ sup.error = run.exc
                /\ sup.output = NewSupervisorState.output

RunStep ==
    /\ sup'.progress >= sup.progress
    /\ run.exc # "none" => run'.invoked = run.invoked
    /\ run.pc = "returned" => run' = run

C30_RunStagesInOrder == [](RunOutcome) /\ [][RunStep]_vars

C30_Witness ==
    /\ run.pc = "returned"
    /\ ~run.ret
    /\ run.invoked = <<"market_research", "stock_analysis", "geopolitics">>
    /\ sup.query.geopolitical_analysis /\ ~sup.query.has_trump_reference
    /\ sup.status = "error"
    /\ sup.progress = 6

====
